---- MODULE Spec2Model ----
(***************************************************************************)
(* Model of dataprofiler/profilers/json_decoder.py: two module-level       *)
(* registries (_profiles, _compilers), the two lookup functions and the    *)
(* two load functions that compose a lookup with the resolved class's      *)
(* load_from_dict.                                                         *)
(*                                                                         *)
(* Python values are modelled as follows.                                  *)
(*   dict            a function whose DOMAIN is the set of keys            *)
(*   None            the string "None"                                     *)
(*   a class         the string of its name                                *)
(*   f-string        the sequence of its space-separated words             *)
(*   call outcome    [kind, value, error]: kind "return" carries value,    *)
(*                   kind "raise" carries error = [type, msg]              *)
(***************************************************************************)
EXTENDS Integers, Sequences, FiniteSets, TLC

(* ---------------- bounds ---------------- *)
MaxNames == 2
MaxVal == 2

(* ---------------- input universes ---------------- *)
NamePool == <<"Foo", "Bar", "Baz", "Qux", "Quux", "Corge">>
Names == {NamePool[i] : i \in 1..MaxNames}

None == "None"

ProfilerTypes == {"FooType", "BarType"}
CompilerTypes == {"FooCompiler", "BarCompiler"}

Fields == {"x"}
Payloads == UNION {[S -> 1..MaxVal] : S \in SUBSET Fields}
EmptyData == [k \in {} |-> 0]

Envelopes == [class : Names, data : Payloads]

(* ---------------- call outcomes ---------------- *)
NoError == [type |-> "NoError", msg |-> <<>>]
NoValue == [cls |-> None, fields |-> EmptyData]

Return(v) == [kind |-> "return", value |-> v, error |-> NoError]
Raise(e) == [kind |-> "raise", value |-> NoValue, error |-> e]

ValueError(msg) == [type |-> "ValueError", msg |-> msg]
KeyError(key) == [type |-> "KeyError", msg |-> <<key>>]

(* dict.get(key): the stored value, or None when the key is absent *)
dict_get(d, key) == IF key \in DOMAIN d THEN d[key] ELSE None

(* ---------------- state ---------------- *)
VARIABLES _profiles, _compilers, last, ever_profiles, ever_compilers

vars == <<_profiles, _compilers, last, ever_profiles, ever_compilers>>

(* module-level initial values of the two registries *)
InitProfilesPopulated == [n \in {NamePool[1]} |-> "FooType"]
InitProfiles == [n \in {} |-> None]
InitCompilers == [n \in {} |-> None]

(* ---------------- delegated constructors ---------------- *)
(* fields a class's load_from_dict reads from the data payload *)
RequiredFields(cls) == IF cls \in {"FooType", "FooCompiler"} THEN {"x"} ELSE {}

(* cls.load_from_dict(data): the class's own constructor from a payload;     *)
(* reading an absent required field raises the class's own KeyError        *)
load_from_dict(cls, data) ==
  IF RequiredFields(cls) \subseteq DOMAIN data
  THEN Return([cls |-> cls, fields |-> data])
  ELSE Raise(KeyError(CHOOSE f \in RequiredFields(cls) : f \notin DOMAIN data))

(* ---------------- lookup functions ---------------- *)
get_column_profiler_class_wrong_dict(class_name) ==
  LET profile_class == dict_get(_compilers, class_name) IN
  IF profile_class = None
  THEN Raise(ValueError(<<"Invalid", "profiler", "class", class_name, "failed", "to", "load.">>))
  ELSE Return(profile_class)

get_column_profiler_class_no_raise(class_name) ==
  Return(dict_get(_profiles, class_name))

get_column_profiler_class_by_membership(class_name) ==
  IF class_name \notin DOMAIN _profiles
  THEN Raise(ValueError(<<"Invalid", "profiler", "class", class_name, "failed", "to", "load.">>))
  ELSE Return(_profiles[class_name])

get_column_profiler_class(class_name) ==
  LET profile_class == dict_get(_profiles, class_name) IN
  IF profile_class = None
  THEN Raise(ValueError(<<"Invalid", "profiler", "class", class_name, "failed", "to", "load.">>))
  ELSE Return(profile_class)

get_compiler_class_wrong_dict(class_name) ==
  LET compiler_class == dict_get(_profiles, class_name) IN
  IF compiler_class = None
  THEN Raise(ValueError(<<"Invalid", "compiler", "class", class_name, "failed", "to", "load.">>))
  ELSE Return(compiler_class)

get_compiler_class_pasted_message(class_name) ==
  LET compiler_class == dict_get(_compilers, class_name) IN
  IF compiler_class = None
  THEN Raise(ValueError(<<"Invalid", "profiler", "class", class_name, "failed", "to", "load.">>))
  ELSE Return(compiler_class)

get_compiler_class(class_name) ==
  LET compiler_class == dict_get(_compilers, class_name) IN
  IF compiler_class = None
  THEN Raise(ValueError(<<"Invalid", "compiler", "class", class_name, "failed", "to", "load.">>))
  ELSE Return(compiler_class)

(* ---------------- load functions ---------------- *)
(* A load yields [result, calls]: the outcome seen by the caller and the   *)
(* sequence of load_from_dict invocations <<class, data>> made on the way. *)
load_column_profile_fallback(serialized_json) ==
  LET looked == get_column_profiler_class(serialized_json.class) IN
  IF looked.kind = "raise"
  THEN [result |-> looked, calls |-> <<[cls |-> "BarType", data |-> serialized_json.data]>>]
  ELSE [result |-> load_from_dict(looked.value, serialized_json.data),
        calls |-> <<[cls |-> looked.value, data |-> serialized_json.data]>>]

load_column_profile_drops_data(serialized_json) ==
  LET looked == get_column_profiler_class(serialized_json.class) IN
  IF looked.kind = "raise"
  THEN [result |-> looked, calls |-> <<>>]
  ELSE [result |-> load_from_dict(looked.value, EmptyData),
        calls |-> <<[cls |-> looked.value, data |-> EmptyData]>>]

load_column_profile_wraps(serialized_json) ==
  LET looked == get_column_profiler_class(serialized_json.class) IN
  IF looked.kind = "raise"
  THEN [result |-> looked, calls |-> <<>>]
  ELSE LET made == load_from_dict(looked.value, serialized_json.data) IN
       [result |-> IF made.kind = "raise"
                   THEN Raise(ValueError(<<"Invalid", "profiler", "class",
                                           serialized_json.class, "failed", "to", "load.">>))
                   ELSE made,
        calls |-> <<[cls |-> looked.value, data |-> serialized_json.data]>>]

load_column_profile(serialized_json) ==
  LET looked == get_column_profiler_class(serialized_json.class) IN
  IF looked.kind = "raise"
  THEN [result |-> looked, calls |-> <<>>]
  ELSE [result |-> load_from_dict(looked.value, serialized_json.data),
        calls |-> <<[cls |-> looked.value, data |-> serialized_json.data]>>]

load_compiler(serialized_json) ==
  LET looked == get_compiler_class(serialized_json.class) IN
  IF looked.kind = "raise"
  THEN [result |-> looked, calls |-> <<>>]
  ELSE [result |-> load_from_dict(looked.value, serialized_json.data),
        calls |-> <<[cls |-> looked.value, data |-> serialized_json.data]>>]

(* ---------------- registry population ---------------- *)
(* register(name, type): insert or overwrite the mapping for name.  The    *)
(* dict accepts any value, None included.                                  *)
register_replaces_all(registry, name, type) == [k \in {name} |-> type]

register(registry, name, type) ==
  [k \in DOMAIN registry \cup {name} |-> IF k = name THEN type ELSE registry[k]]

(* ---------------- record of the latest operation ---------------- *)
NoCall == [result |-> Return(NoValue), calls |-> <<>>]

Record(op, class_name, data, type, out) ==
  [op |-> op, class_name |-> class_name, data |-> data, type |-> type,
   result |-> out.result, calls |-> out.calls,
   pre_profiles |-> _profiles, pre_compilers |-> _compilers]

(* ---------------- actions ---------------- *)
Init ==
  /\ _profiles = InitProfiles
  /\ _compilers = InitCompilers
  /\ ever_profiles = {}
  /\ ever_compilers = {}
  /\ last = [op |-> "init", class_name |-> "", data |-> EmptyData, type |-> None,
             result |-> NoCall.result, calls |-> NoCall.calls,
             pre_profiles |-> InitProfiles, pre_compilers |-> InitCompilers]

RegisterProfiler ==
  \E name \in Names, type \in ProfilerTypes \cup {None} :
    /\ _profiles' = register(_profiles, name, type)
    /\ ever_profiles' = ever_profiles \cup {name}
    /\ last' = Record("register_profiler", name, EmptyData, type, NoCall)
    /\ UNCHANGED <<_compilers, ever_compilers>>

RegisterCompiler ==
  \E name \in Names, type \in CompilerTypes \cup {None} :
    /\ _compilers' = register(_compilers, name, type)
    /\ ever_compilers' = ever_compilers \cup {name}
    /\ last' = Record("register_compiler", name, EmptyData, type, NoCall)
    /\ UNCHANGED <<_profiles, ever_profiles>>

CallGetColumnProfilerClass ==
  \E class_name \in Names :
    /\ last' = Record("get_column_profiler_class", class_name, EmptyData, None,
                      [result |-> get_column_profiler_class(class_name), calls |-> <<>>])
    /\ UNCHANGED <<_profiles, _compilers, ever_profiles, ever_compilers>>

CallGetCompilerClass ==
  \E class_name \in Names :
    /\ last' = Record("get_compiler_class", class_name, EmptyData, None,
                      [result |-> get_compiler_class(class_name), calls |-> <<>>])
    /\ UNCHANGED <<_profiles, _compilers, ever_profiles, ever_compilers>>

CallLoadColumnProfile ==
  \E serialized_json \in Envelopes :
    /\ last' = Record("load_column_profile", serialized_json.class, serialized_json.data,
                      None, load_column_profile(serialized_json))
    /\ UNCHANGED <<_profiles, _compilers, ever_profiles, ever_compilers>>

CallLoadCompiler ==
  \E serialized_json \in Envelopes :
    /\ last' = Record("load_compiler", serialized_json.class, serialized_json.data,
                      None, load_compiler(serialized_json))
    /\ UNCHANGED <<_profiles, _compilers, ever_profiles, ever_compilers>>

Next ==
  \/ RegisterProfiler
  \/ RegisterCompiler
  \/ CallGetColumnProfilerClass
  \/ CallGetCompilerClass
  \/ CallLoadColumnProfile
  \/ CallLoadCompiler

Spec == Init /\ [][Next]_vars

TypeOK ==
  /\ DOMAIN _profiles \subseteq Names
  /\ DOMAIN _compilers \subseteq Names
  /\ \A n \in DOMAIN _profiles : _profiles[n] \in ProfilerTypes \cup {None}
  /\ \A n \in DOMAIN _compilers : _compilers[n] \in CompilerTypes \cup {None}
  /\ last.result.kind \in {"return", "raise"}
(* ---------------- vocabulary of the properties ---------------- *)
IsKey(registry, name) == name \in DOMAIN registry
HoldsType(registry, name) == IsKey(registry, name) /\ registry[name] # None
Words(msg) == {msg[i] : i \in 1..Len(msg)}
UnknownClassError(family, name) ==
  ValueError(<<"Invalid", family, "class", name, "failed", "to", "load.">>)
IsUnknownClass(result, family, name) ==
  result.kind = "raise" /\ result.error = UnknownClassError(family, name)
RegistriesUntouched ==
  _profiles = last.pre_profiles /\ _compilers = last.pre_compilers
ProfilerOps == {"get_column_profiler_class", "load_column_profile"}
CompilerOps == {"get_compiler_class", "load_compiler"}
LoadOps == {"load_column_profile", "load_compiler"}
Consulted == IF last.op \in ProfilerOps THEN _profiles ELSE _compilers
Family == IF last.op \in ProfilerOps THEN "profiler" ELSE "compiler"

C1_State ==
  (last.op \in {"get_column_profiler_class", "get_compiler_class"}
     /\ HoldsType(Consulted, last.class_name))
  => /\ last.result.kind = "return"
     /\ last.result.value = Consulted[last.class_name]
     /\ RegistriesUntouched

C1_Repeat ==
  (/\ last.op \in {"get_column_profiler_class", "get_compiler_class"}
   /\ last'.op = last.op
   /\ last'.class_name = last.class_name)
  => /\ last'.result.kind = last.result.kind
     /\ last'.result.error = last.result.error
     /\ (last.result.kind = "return" => last'.result.value = last.result.value)
     /\ UNCHANGED <<_profiles, _compilers>>

C2_AbsentNameRaises ==
  (last.op \in {"get_column_profiler_class", "get_compiler_class"}
     /\ ~IsKey(Consulted, last.class_name))
  => /\ IsUnknownClass(last.result, Family, last.class_name)
     /\ RegistriesUntouched

C2_Witness ==
  /\ last.op = "get_column_profiler_class"
  /\ ~IsKey(_profiles, last.class_name)
  /\ last.result.kind = "raise"
  /\ DOMAIN _profiles # {}

(* C3: a load of an envelope whose class name has no entry in the          *)
(* corresponding registry ends in the unknown-class error and invokes no   *)
(* load_from_dict.                                                         *)
C3_UnknownLoadInvokesNothing ==
  (last.op \in LoadOps /\ ~IsKey(Consulted, last.class_name))
  => /\ IsUnknownClass(last.result, Family, last.class_name)
     /\ last.calls = <<>>

C3_Witness ==
  /\ last.op = "load_column_profile"
  /\ ~IsKey(_profiles, last.class_name)
  /\ last.result.kind = "raise"
  /\ \E n \in DOMAIN _profiles : _profiles[n] # None

(* C4: a load of an envelope whose class name is registered invokes        *)
(* load_from_dict exactly once, on the registered type, with exactly the   *)
(* envelope's data payload, and returns that call's result unmodified.     *)
C4_LoadDelegatesOnce ==
  (last.op \in LoadOps /\ HoldsType(Consulted, last.class_name))
  => /\ last.calls = <<[cls |-> Consulted[last.class_name], data |-> last.data]>>
     /\ last.result.kind = load_from_dict(Consulted[last.class_name], last.data).kind
     /\ last.result = load_from_dict(Consulted[last.class_name], last.data)

C4_Witness ==
  /\ last.op = "load_column_profile"
  /\ HoldsType(_profiles, last.class_name)
  /\ _profiles[last.class_name] = "FooType"
  /\ last.result.kind = "return"
  /\ last.result.value = [cls |-> "FooType", fields |-> last.data]
  /\ DOMAIN last.data = {"x"}

(* C5: when the resolved type's load_from_dict fails on the payload, the   *)
(* load fails with that same error: not the decoder's unknown-class error, *)
(* no second invocation, no returned value.                                *)
C5_DelegatedErrorPropagates ==
  (/\ last.op \in LoadOps
   /\ HoldsType(Consulted, last.class_name)
   /\ load_from_dict(Consulted[last.class_name], last.data).kind = "raise")
  => /\ last.result.kind = "raise"
     /\ last.result.error = load_from_dict(Consulted[last.class_name], last.data).error
     /\ last.result.error # UnknownClassError(Family, last.class_name)
     /\ Len(last.calls) = 1

C5_Witness ==
  /\ last.op = "load_column_profile"
  /\ HoldsType(_profiles, last.class_name)
  /\ last.result.kind = "raise"
  /\ last.result.error.type = "KeyError"
  /\ Len(last.calls) = 1

(* C6: an unknown-class error raised by a lookup carries the looked-up     *)
(* class name and the tag of the consulted family, never the other tag.    *)
C6_ErrorNamesClassAndFamily ==
  (last.op \in {"get_column_profiler_class", "get_compiler_class"}
     /\ last.result.kind = "raise")
  => /\ last.result.error.type = "ValueError"
     /\ last.class_name \in Words(last.result.error.msg)
     /\ Family \in Words(last.result.error.msg)
     /\ Words(last.result.error.msg) \cap ({"profiler", "compiler"} \ {Family}) = {}

C6_Witness ==
  /\ last.op = "get_compiler_class"
  /\ last.result.kind = "raise"
  /\ "compiler" \in Words(last.result.error.msg)
  /\ last.class_name \in Words(last.result.error.msg)

(* C7: registering a name inserts or overwrites only that name's mapping,  *)
(* leaves every other entry and the other registry alone, and registering  *)
(* the same name to the same type again changes nothing.                   *)
C7_RegisterTouchesOneEntry ==
  /\ last.op = "register_profiler"
     => /\ _profiles[last.class_name] = last.type
        /\ DOMAIN _profiles = DOMAIN last.pre_profiles \cup {last.class_name}
        /\ \A m \in DOMAIN last.pre_profiles \ {last.class_name} :
             _profiles[m] = last.pre_profiles[m]
        /\ _compilers = last.pre_compilers
        /\ register(_profiles, last.class_name, last.type) = _profiles
  /\ last.op = "register_compiler"
     => /\ _compilers[last.class_name] = last.type
        /\ DOMAIN _compilers = DOMAIN last.pre_compilers \cup {last.class_name}
        /\ \A m \in DOMAIN last.pre_compilers \ {last.class_name} :
             _compilers[m] = last.pre_compilers[m]
        /\ _profiles = last.pre_profiles
        /\ register(_compilers, last.class_name, last.type) = _compilers

C7_Witness ==
  /\ last.op = "register_profiler"
  /\ last.class_name \in DOMAIN last.pre_profiles
  /\ last.pre_profiles[last.class_name] # last.type
  /\ DOMAIN last.pre_profiles \ {last.class_name} # {}
  /\ DOMAIN _compilers # {}

(* C8: both registries start empty; a load returns an instance only if a   *)
(* registration of the name in the corresponding registry precedes it, and *)
(* a load issued before any such registration fails with the unknown-class *)
(* error.                                                                  *)
C8_LoadNeedsPriorRegistration ==
  /\ last.op = "init" => (DOMAIN _profiles = {} /\ DOMAIN _compilers = {})
  /\ last.op \in LoadOps
     => LET ever == IF last.op = "load_column_profile"
                    THEN ever_profiles ELSE ever_compilers IN
        /\ last.result.kind = "return" => last.class_name \in ever
        /\ last.class_name \notin ever
             => IsUnknownClass(last.result, Family, last.class_name)

C8_Witness ==
  /\ last.op = "load_column_profile"
  /\ last.result.kind = "return"
  /\ last.class_name \in ever_profiles
  /\ ever_profiles # Names
  /\ ever_compilers = {}

(* C9: the families are isolated.  The profiler functions depend on the    *)
(* profiler registry alone and the compiler functions on the compiler      *)
(* registry alone: a name held by one registry only fails through the      *)
(* other family's functions, and a name held by both resolves to each      *)
(* family's own type.                                                      *)
C9_State ==
  /\ (last.op \in ProfilerOps /\ ~HoldsType(_profiles, last.class_name))
       => IsUnknownClass(last.result, "profiler", last.class_name)
  /\ (last.op \in CompilerOps /\ ~HoldsType(_compilers, last.class_name))
       => IsUnknownClass(last.result, "compiler", last.class_name)
  /\ (last.op = "get_column_profiler_class" /\ HoldsType(_profiles, last.class_name))
       => (last.result.kind = "return" /\ last.result.value = _profiles[last.class_name])
  /\ (last.op = "get_compiler_class" /\ HoldsType(_compilers, last.class_name))
       => (last.result.kind = "return" /\ last.result.value = _compilers[last.class_name])
  /\ (last.op = "load_column_profile" /\ HoldsType(_profiles, last.class_name))
       => last.calls[1].cls = _profiles[last.class_name]
  /\ (last.op = "load_compiler" /\ HoldsType(_compilers, last.class_name))
       => last.calls[1].cls = _compilers[last.class_name]

C9_Reads ==
  \A n \in Names :
    /\ (last'.op = "register_compiler" /\ last'.class_name = n)
         => /\ get_column_profiler_class(n)' = get_column_profiler_class(n)
            /\ \A d \in Payloads :
                 load_column_profile([class |-> n, data |-> d])'
                   = load_column_profile([class |-> n, data |-> d])
    /\ (last'.op = "register_profiler" /\ last'.class_name = n)
         => /\ get_compiler_class(n)' = get_compiler_class(n)
            /\ \A d \in Payloads :
                 load_compiler([class |-> n, data |-> d])'
                   = load_compiler([class |-> n, data |-> d])

C9_FamiliesIsolated == [][C9_State' /\ C9_Reads]_vars

C9_Witness ==
  /\ last.op = "get_compiler_class"
  /\ HoldsType(_profiles, last.class_name)
  /\ ~IsKey(_compilers, last.class_name)
  /\ last.result.kind = "raise"

(* C10: not-found is decided by comparing the fetched value with None: a   *)
(* key mapped to None gets the same unknown-class error as an absent key,  *)
(* and no lookup returns None.                                             *)
C10_NoneCountsAsAbsent ==
  last.op \in {"get_column_profiler_class", "get_compiler_class"}
  => /\ (IsKey(Consulted, last.class_name) /\ Consulted[last.class_name] = None)
          => IsUnknownClass(last.result, Family, last.class_name)
     /\ last.result.kind = "return" => last.result.value # None

C10_Witness ==
  /\ last.op = "get_column_profiler_class"
  /\ IsKey(_profiles, last.class_name)
  /\ _profiles[last.class_name] = None
  /\ last.result.kind = "raise"
====
